---- MODULE Spec2Model ----
(***************************************************************************)
(* The game room state machine of the poker server (src/package.js): the   *)
(* user store, the room registry, seating, hand start, player actions,     *)
(* turn rotation, phase advance, settlement and the delayed start timers.  *)
(*                                                                         *)
(* Every socket handler and every timer callback runs to completion on     *)
(* Node's single thread, so each is one atomic action here.  Each user     *)
(* holds one connection, so a socket is named by the user it authenticated *)
(* as.  Seat indices are 0-based as in the source; TLA+ sequences are      *)
(* 1-based, so seat i is players[i + 1].                                   *)
(***************************************************************************)
EXTENDS Integers, Sequences, FiniteSets, TLC

VARIABLES
    users,        \* users: Map userId -> chips balance (registered users only)
    gameRooms,    \* gameRooms: Map roomId -> room object
    currentRoom,  \* socket.currentRoom of every connection
    timers,       \* pending setTimeout callbacks, per room id
    fault,        \* "none", or the uncaught error that ended the process
    hands,        \* number of hands started so far (bounds the exploration)
    acts,         \* number of player actions accepted so far (bounds the exploration)
    handTotal,    \* per room id: sum of the seats' chips just before the hand started
    handPure,     \* per room id: no seat was added or removed since the hand started
    left,         \* the sockets that have left a room (they send no further join-room)
    ev            \* the handler that ran last and what it did

vars == <<users, gameRooms, currentRoom, timers, fault, hands, acts, handTotal, handPure, left, ev>>

----------------------------------------------------------------------------
(* Bounds of the exploration *)

MaxHands == 2
MaxActions == 2

UserIds == {"u1", "u2", "u3"}
RoomIds == {"r1", "r2"}
BigBlinds == {100, 1000}
RaiseAmounts == {0, -50}
Actions == {"fold", "call", "raise", "check", "all-in"}
Draws == {"last", "first"}

\* the inputs the specification Spec explores
MainRooms == {"r1"}
MainBlinds == {100}
MainDraws == {"first"}

(* Program constants *)

InitialChips == 10000
MaxPlayers == 6
NumSuits == 4
NumValues == 13
BuyInFactor == 10

NoRoom == "none"
NoUser == "none"

----------------------------------------------------------------------------
(* Helpers *)

Min(a, b) == IF a < b THEN a ELSE b

RECURSIVE SumSeq(_)
SumSeq(s) == IF s = <<>> THEN 0 ELSE Head(s) + SumSeq(Tail(s))

Seats(room) == 0 .. (Len(room.players) - 1)

Seat(room, i) == room.players[i + 1]

ChipsOf(room) == SumSeq([k \in 1 .. Len(room.players) |-> room.players[k].chips])

BetsOf(room) == SumSeq([k \in 1 .. Len(room.players) |-> room.players[k].bet])

NonFolded(room) == {i \in Seats(room) : ~Seat(room, i).folded}

InHand(room) == room.phase \in {"preflop", "flop", "turn", "river", "showdown"}

\* Array.prototype.findIndex over the seats: first seat of the socket, or -1
findIndex(room, s) ==
    LET hit == {i \in Seats(room) : Seat(room, i).socketId = s}
    IN  IF hit = {} THEN -1 ELSE CHOOSE i \in hit : \A j \in hit : i <= j

\* Array.prototype.splice(i, 1)
splice(seq, i) == [k \in 1 .. (Len(seq) - 1) |-> IF k <= i THEN seq[k] ELSE seq[k + 1]]

----------------------------------------------------------------------------
(* Deck *)

\* the deck in creation order: suits outer, values inner; a card is its number
orderedDeck == [k \in 1 .. (NumSuits * NumValues) |-> k]

\* Math.floor(Math.random() * (i + 1)): a draw in 0..i, by the named strategy
randomIndex(draw, i) == IF draw = "last" THEN i ELSE 0

swap(d, i, j) == [d EXCEPT ![i + 1] = d[j + 1], ![j + 1] = d[i + 1]]

\* Fisher-Yates, i from length-1 down to 1
RECURSIVE shuffleLoop(_, _, _)
shuffleLoop(d, i, draw) ==
    IF i <= 0 THEN d ELSE shuffleLoop(swap(d, i, randomIndex(draw, i)), i - 1, draw)

shuffleDeck(deck, draw) == shuffleLoop(deck, Len(deck) - 1, draw)

createDeck(draw) == shuffleDeck(orderedDeck, draw)

\* deck.pop(): the card at the end of the array
top(deck) == deck[Len(deck)]

pop(deck) == SubSeq(deck, 1, Len(deck) - 1)

----------------------------------------------------------------------------
(* Room *)

createGameRoom(roomId, bigBlind) ==
    [ id |-> roomId,
      players |-> <<>>,
      deck |-> <<>>,
      communityCards |-> <<>>,
      pot |-> 0,
      currentBet |-> 0,
      bigBlind |-> bigBlind,
      smallBlind |-> bigBlind \div 2,
      dealerIndex |-> 0,
      currentPlayerIndex |-> -1,
      phase |-> "waiting",
      maxPlayers |-> MaxPlayers ]

newPlayer(s, chips) ==
    [ userId |-> s, socketId |-> s, chips |-> chips, cards |-> <<>>,
      bet |-> 0, folded |-> FALSE, allIn |-> FALSE ]

NoTimers == [start |-> 0, restart |-> 0, stale |-> 0]

Pending(t) == t.start + t.restart + t.stale

Event(kind, s, r, ok) ==
    [ kind |-> kind, sock |-> s, room |-> r, ok |-> ok,
      endGame |-> FALSE, winner |-> -1 ]

----------------------------------------------------------------------------
(* Hand start *)

\* users.get(player.userId); if (user) user.chips = player.chips
syncUser(us, p) == IF p.userId \in DOMAIN us THEN [us EXCEPT ![p.userId] = p.chips] ELSE us

\* the players.forEach of startNewGame, from seat `index` on: reset the seat, post the blinds
RECURSIVE resetAndBlinds(_, _)
resetAndBlinds(cx, index) ==
    LET room == cx.room
        n == Len(room.players)
        p0 == [room.players[index + 1] EXCEPT
                 !.cards = <<>>, !.bet = 0, !.folded = FALSE, !.allIn = FALSE]
    IN  IF index >= n THEN cx
        ELSE IF index = (room.dealerIndex + 1) % n THEN
            LET p == [p0 EXCEPT !.bet = room.smallBlind, !.chips = @ - room.smallBlind]
            IN  resetAndBlinds(
                    [cx EXCEPT !.room.players[index + 1] = p,
                               !.room.pot = @ + room.smallBlind,
                               !.users = syncUser(@, p)], index + 1)
        ELSE IF index = (room.dealerIndex + 2) % n THEN
            LET p == [p0 EXCEPT !.bet = room.bigBlind, !.chips = @ - room.bigBlind]
            IN  resetAndBlinds(
                    [cx EXCEPT !.room.players[index + 1] = p,
                               !.room.pot = @ + room.bigBlind,
                               !.users = syncUser(@, p)], index + 1)
        ELSE resetAndBlinds([cx EXCEPT !.room.players[index + 1] = p0], index + 1)

\* a deal that stops after the first seat it serves
dealPassFirstSeat(room, k) ==
    IF k >= Len(room.players) \/ Len(room.deck) = 0 THEN room
    ELSE [room EXCEPT !.players[k + 1].cards = Append(@, top(room.deck)),
                      !.deck = pop(@)]

\* one pass of the deal: every seat from `k` on takes deck.pop() while the deck has cards
RECURSIVE dealPass(_, _)
dealPass(room, k) ==
    IF k >= Len(room.players) THEN room
    ELSE IF Len(room.deck) > 0 THEN
        dealPass([room EXCEPT !.players[k + 1].cards = Append(@, top(room.deck)),
                              !.deck = pop(@)], k + 1)
    ELSE dealPass(room, k + 1)

\* the reset at the top of startNewGame
resetRoom(room, draw) ==
    [room EXCEPT !.deck = createDeck(draw),
                 !.communityCards = <<>>,
                 !.pot = 0,
                 !.currentBet = room.bigBlind,
                 !.phase = "preflop"]

\* a guard that looks the room up and does not count its seats
startTakesEffectIfRegistered(rooms, roomId) == roomId \in DOMAIN rooms

\* whether startNewGame goes past its first line
startTakesEffect(rooms, roomId) ==
    roomId \in DOMAIN rooms /\ ~(Len(rooms[roomId].players) < 2)

\* a hand start that hands the first turn to the seat after the dealer
startNewGameFromSmallBlind(cx, draw) ==
    LET c1 == resetAndBlinds([cx EXCEPT !.room = resetRoom(cx.room, draw)], 0)
        dealt == dealPass(dealPass(c1.room, 0), 0)
    IN  [c1 EXCEPT !.room =
            [dealt EXCEPT !.currentPlayerIndex =
                (dealt.dealerIndex + 1) % Len(dealt.players)]]

\* startNewGame past its guard, on a context [room, users, ...]
startNewGame(cx, draw) ==
    LET c1 == resetAndBlinds([cx EXCEPT !.room = resetRoom(cx.room, draw)], 0)
        dealt == dealPass(dealPass(c1.room, 0), 0)
    IN  [c1 EXCEPT !.room =
            [dealt EXCEPT !.currentPlayerIndex =
                (dealt.dealerIndex + 3) % Len(dealt.players)]]

----------------------------------------------------------------------------
(* Turn engine, phase engine, settlement *)

Context(room, us) ==
    [room |-> room, users |-> us, fault |-> "none", endGame |-> FALSE, winner |-> -1]

eligible(p) == ~p.folded /\ ~p.allIn /\ p.chips > 0

\* the while loop of nextPlayer: the first eligible seat, or -1 after N attempts
RECURSIVE scan(_, _, _)
scan(room, nextIndex, attempts) ==
    IF ~(attempts < Len(room.players)) THEN -1
    ELSE IF eligible(Seat(room, nextIndex)) THEN nextIndex
    ELSE scan(room, (nextIndex + 1) % Len(room.players), attempts + 1)

\* a search that starts at the seat that just acted
firstEligibleFromCurrent(room) == scan(room, room.currentPlayerIndex % Len(room.players), 0)

firstEligible(room) == scan(room, (room.currentPlayerIndex + 1) % Len(room.players), 0)

\* Math.floor(Math.random() * n): any index of an array of n elements
randomIndices(n) == 0 .. (n - 1)

\* the non-folded seats in seat order (players.filter)
activePlayers(room) == SelectSeq([k \in 1 .. Len(room.players) |-> k - 1],
                                 LAMBDA i : ~Seat(room, i).folded)

\* the rest of endGame once the winner is the seat w
award(cx, w) ==
    LET room == cx.room
        p == [Seat(room, w) EXCEPT !.chips = @ + room.pot]
    IN  [cx EXCEPT !.room.players[w + 1] = p,
                   !.users = syncUser(@, p),
                   !.room.phase = "waiting",
                   !.room.dealerIndex = (@ + 1) % Len(room.players),
                   !.endGame = TRUE,
                   !.winner = w]

\* endGame: the set of its possible results (one per draw of Math.random)
endGame(cx) ==
    LET active == activePlayers(cx.room)
        n == Len(active)
    IN  IF n = 1 THEN {award(cx, active[1])}
        ELSE IF n = 0 THEN
            \* activePlayers[0] of an empty array is undefined: winner.chips throws a TypeError
            {[cx EXCEPT !.fault = "TypeError", !.endGame = TRUE]}
        ELSE {award(cx, active[k + 1]) : k \in randomIndices(n)}

\* community cards: n times, push deck.pop() while the deck has cards
RECURSIVE dealCommunity(_, _)
dealCommunity(room, n) ==
    IF n = 0 THEN room
    ELSE IF Len(room.deck) > 0 THEN
        dealCommunity([room EXCEPT !.communityCards = Append(@, top(room.deck)),
                                   !.deck = pop(@)], n - 1)
    ELSE dealCommunity(room, n - 1)

\* a reset between streets that also takes the folds back
resetBetsAndFolds(room) ==
    [room EXCEPT !.players = [k \in DOMAIN @ |-> [@[k] EXCEPT !.bet = 0, !.folded = FALSE]],
                 !.currentBet = 0]

resetBets(room) ==
    [room EXCEPT !.players = [k \in DOMAIN @ |-> [@[k] EXCEPT !.bet = 0]],
                 !.currentBet = 0]

RECURSIVE nextPlayer(_)
RECURSIVE nextPhase(_)

\* nextPlayer and nextPhase: the set of possible results of the call
nextPlayer(cx) ==
    LET found == firstEligible(cx.room)
    IN  IF found # -1 THEN {[cx EXCEPT !.room.currentPlayerIndex = found]}
        ELSE nextPhase(cx)

nextPhase(cx) ==
    LET r0 == cx.room
        r1 == resetBets(r0)
        street(name, n) ==
            [dealCommunity(r1, n) EXCEPT !.phase = name,
                                         !.currentPlayerIndex = r1.dealerIndex]
    IN  CASE r0.phase = "preflop" -> nextPlayer([cx EXCEPT !.room = street("flop", 3)])
          [] r0.phase = "flop" -> nextPlayer([cx EXCEPT !.room = street("turn", 1)])
          [] r0.phase = "turn" -> nextPlayer([cx EXCEPT !.room = street("river", 1)])
          [] r0.phase = "river" -> endGame([cx EXCEPT !.room = [r1 EXCEPT !.phase = "showdown"]])
          [] OTHER ->
                \* no case of the switch matches ("waiting", "showdown"): the phase stays,
                \* currentPlayerIndex := dealerIndex, nextPlayer again.  With no eligible
                \* seat that call comes back here with the room unchanged, without end:
                \* the call stack overflows (RangeError).
                LET r2 == [r1 EXCEPT !.currentPlayerIndex = r1.dealerIndex]
                IN  IF firstEligible(r2) # -1 THEN nextPlayer([cx EXCEPT !.room = r2])
                    ELSE {[cx EXCEPT !.room = r2, !.fault = "RangeError"]}

----------------------------------------------------------------------------
(* Player action *)

\* parseInt(amount) || room.bigBlind: 0 stands for a missing, zero or non-numeric amount
raiseBy(room, amount) == IF amount = 0 THEN room.bigBlind ELSE amount

\* a bet that reaches the pot without leaving the seat's chips
moveChipsNoDebit(cx, i, amt) ==
    [cx EXCEPT !.room.players[i + 1].bet = @ + amt,
               !.room.pot = @ + amt]

\* move `amt` from the seat's chips to its bet and the pot; mirror the balance
moveChips(cx, i, amt) ==
    LET p == [Seat(cx.room, i) EXCEPT !.bet = @ + amt, !.chips = @ - amt]
    IN  [cx EXCEPT !.room.players[i + 1] = p,
                   !.room.pot = @ + amt,
                   !.users = [@ EXCEPT ![p.userId] = p.chips]]

\* the switch of the player-action handler, for the seat i that is to act
applyAction(cx, i, action, amount) ==
    LET room == cx.room
        player == Seat(room, i)
    IN  CASE action = "fold" -> [cx EXCEPT !.room.players[i + 1].folded = TRUE]
          [] action = "call" ->
                moveChips(cx, i, Min(room.currentBet - player.bet, player.chips))
          [] action = "raise" ->
                LET totalBet == room.currentBet + raiseBy(room, amount)
                    c1 == moveChips(cx, i, Min(totalBet - player.bet, player.chips))
                IN  [c1 EXCEPT !.room.currentBet = Seat(c1.room, i).bet]
          [] action = "check" ->
                IF room.currentBet > player.bet
                THEN moveChips(cx, i, Min(room.currentBet - player.bet, player.chips))
                ELSE cx
          [] action = "all-in" ->
                LET c1 == moveChips(cx, i, player.chips)
                    c2 == [c1 EXCEPT !.room.players[i + 1].allIn = TRUE]
                    bet == Seat(c2.room, i).bet
                IN  IF bet > room.currentBet THEN [c2 EXCEPT !.room.currentBet = bet] ELSE c2
          [] OTHER -> cx

\* a guard that accepts any seated socket, whoever is to act
actionAcceptedAnySeat(rooms, cur, s) ==
    /\ cur[s] # NoRoom
    /\ cur[s] \in DOMAIN rooms
    /\ findIndex(rooms[cur[s]], s) # -1

\* the guard of the handler: the room of the socket, and the socket's seat is the one to act
actionAccepted(rooms, cur, s) ==
    /\ cur[s] # NoRoom
    /\ cur[s] \in DOMAIN rooms
    /\ findIndex(rooms[cur[s]], s) # -1
    /\ findIndex(rooms[cur[s]], s) = rooms[cur[s]].currentPlayerIndex

----------------------------------------------------------------------------
(* Initial state: the server has started, both maps are empty *)

Init ==
    /\ users = <<>>
    /\ gameRooms = <<>>
    /\ currentRoom = [s \in UserIds |-> NoRoom]
    /\ timers = [r \in RoomIds |-> NoTimers]
    /\ fault = "none"
    /\ hands = 0
    /\ acts = 0
    /\ handTotal = [r \in RoomIds |-> 0]
    /\ handPure = [r \in RoomIds |-> TRUE]
    /\ left = {}
    /\ ev = Event("init", NoUser, NoRoom, FALSE)

\* Map.set / Map.delete on a map held as a function
mapSet(m, k, v) == [x \in DOMAIN m \cup {k} |-> IF x = k THEN v ELSE m[x]]

mapDelete(m, k) == [x \in DOMAIN m \ {k} |-> m[x]]

----------------------------------------------------------------------------
(* socket.on('authenticate'), registration of a new user id *)

Authenticate(s) ==
    /\ fault = "none"
    /\ s \notin DOMAIN users
    /\ users' = mapSet(users, s, InitialChips)
    /\ ev' = Event("authenticate", s, NoRoom, TRUE)
    /\ UNCHANGED <<gameRooms, currentRoom, timers, fault, hands, acts, handTotal, handPure, left>>

----------------------------------------------------------------------------
(* socket.on('join-room') *)

\* the checks of join-room that reject the request, on the registry after the room
\* was created when missing
joinRejected(rooms, us, s, roomId, bigBlind) ==
    \/ s \notin DOMAIN us
    \/ us[s] < bigBlind * BuyInFactor
    \/ /\ roomId \in DOMAIN rooms
       /\ \/ \E k \in 1 .. Len(rooms[roomId].players) : rooms[roomId].players[k].userId = s
          \/ Len(rooms[roomId].players) >= rooms[roomId].maxPlayers

\* the auto-start condition at the end of join-room
autoStart(room) == Len(room.players) >= 2 /\ room.phase = "waiting"

JoinRoom(s, roomId, bigBlind) ==
    /\ fault = "none"
    /\ IF joinRejected(gameRooms, users, s, roomId, bigBlind)
       THEN /\ ev' = Event("join-room", NoUser, roomId, FALSE)
            /\ UNCHANGED <<users, gameRooms, currentRoom, timers, fault, hands, acts,
                           handTotal, handPure, left>>
       ELSE LET room0 == IF roomId \in DOMAIN gameRooms THEN gameRooms[roomId]
                         ELSE createGameRoom(roomId, bigBlind)
                room == [room0 EXCEPT !.players = Append(@, newPlayer(s, users[s]))]
            IN  /\ gameRooms' = mapSet(gameRooms, roomId, room)
                /\ currentRoom' = [currentRoom EXCEPT ![s] = roomId]
                /\ timers' = IF autoStart(room)
                             THEN [timers EXCEPT ![roomId].start = @ + 1]
                             ELSE timers
                /\ handPure' = IF InHand(room) THEN [handPure EXCEPT ![roomId] = FALSE]
                               ELSE handPure
                /\ ev' = Event("join-room", s, roomId, TRUE)
                /\ UNCHANGED <<users, fault, hands, acts, handTotal, left>>

----------------------------------------------------------------------------
(* socket.on('player-action') *)

PlayerAction(s, action, amount) ==
    /\ fault = "none"
    /\ IF ~actionAccepted(gameRooms, currentRoom, s)
       THEN /\ ev' = Event("player-action", s, NoRoom, FALSE)
            /\ UNCHANGED <<users, gameRooms, currentRoom, timers, fault, hands, acts,
                           handTotal, handPure, left>>
       ELSE LET roomId == currentRoom[s]
                room == gameRooms[roomId]
                i == findIndex(room, s)
            IN  \E cx \in nextPlayer(applyAction(Context(room, users), i, action, amount)) :
                /\ acts < MaxActions
                /\ acts' = acts + 1
                /\ gameRooms' = [gameRooms EXCEPT ![roomId] = cx.room]
                /\ users' = cx.users
                /\ fault' = cx.fault
                \* endGame schedules the restart timer once the pot is awarded
                /\ timers' = IF cx.endGame /\ cx.fault = "none"
                             THEN [timers EXCEPT ![roomId].restart = @ + 1]
                             ELSE timers
                /\ ev' = [Event("player-action", s, roomId, TRUE) EXCEPT
                            !.endGame = cx.endGame, !.winner = cx.winner]
                /\ UNCHANGED <<currentRoom, hands, handTotal, handPure, left>>

----------------------------------------------------------------------------
(* socket.on('leave-room') and socket.on('disconnect'): leaveCurrentRoom *)

LeaveRoom(s) ==
    /\ fault = "none"
    /\ currentRoom[s] # NoRoom
    /\ currentRoom[s] \in DOMAIN gameRooms
    /\ LET roomId == currentRoom[s]
           room == gameRooms[roomId]
           i == findIndex(room, s)
           rest == [room EXCEPT !.players = splice(@, i)]
       IN  /\ IF i = -1 THEN UNCHANGED <<gameRooms, timers, handPure>>
              ELSE IF Len(rest.players) = 0
              THEN /\ gameRooms' = mapDelete(gameRooms, roomId)
                   \* the restart timers hold the deleted room object, now without seats
                   /\ timers' = [timers EXCEPT ![roomId].restart = 0,
                                               ![roomId].stale = @ + timers[roomId].restart]
                   /\ UNCHANGED handPure
              ELSE /\ gameRooms' = [gameRooms EXCEPT ![roomId] = rest]
                   /\ handPure' = IF InHand(room) THEN [handPure EXCEPT ![roomId] = FALSE]
                                  ELSE handPure
                   /\ UNCHANGED timers
           /\ currentRoom' = [currentRoom EXCEPT ![s] = NoRoom]
           /\ left' = left \cup {s}
           /\ ev' = Event("leave-room", s, roomId, i # -1)
           /\ UNCHANGED <<users, fault, hands, acts, handTotal>>

----------------------------------------------------------------------------
(* The delayed callbacks *)

\* startNewGame(roomId) as a whole: a no-op behind its guard
runStart(roomId, draw) ==
    IF ~startTakesEffect(gameRooms, roomId)
    THEN /\ ev' = Event("timer", NoUser, roomId, FALSE)
         /\ UNCHANGED <<users, gameRooms, hands, handTotal, handPure, left>>
    ELSE LET cx == startNewGame(Context(gameRooms[roomId], users), draw)
         IN  /\ hands < MaxHands
             /\ hands' = hands + 1
             /\ gameRooms' = [gameRooms EXCEPT ![roomId] = cx.room]
             /\ users' = cx.users
             /\ handTotal' = [handTotal EXCEPT ![roomId] = ChipsOf(gameRooms[roomId])]
             /\ handPure' = [handPure EXCEPT ![roomId] = TRUE]
             /\ ev' = Event("timer", NoUser, roomId, TRUE)

\* setTimeout(() => startNewGame(roomId), 3000) of join-room
StartTimer(roomId, draw) ==
    /\ fault = "none"
    /\ timers[roomId].start > 0
    /\ timers' = [timers EXCEPT ![roomId].start = @ - 1]
    /\ runStart(roomId, draw)
    /\ UNCHANGED <<currentRoom, fault, acts, left>>

\* the setTimeout of endGame, its room object still registered:
\* if (room.players.length >= 2) startNewGame(roomId)
RestartTimer(roomId, draw) ==
    /\ fault = "none"
    /\ timers[roomId].restart > 0
    /\ timers' = [timers EXCEPT ![roomId].restart = @ - 1]
    /\ IF Len(gameRooms[roomId].players) >= 2
       THEN runStart(roomId, draw)
       ELSE /\ ev' = Event("timer", NoUser, roomId, FALSE)
            /\ UNCHANGED <<users, gameRooms, hands, handTotal, handPure, left>>
    /\ UNCHANGED <<currentRoom, fault, acts, left>>

\* the setTimeout of endGame, its room object deleted from the registry: the
\* object has no seats, so the callback does nothing
StaleTimer(roomId) ==
    /\ fault = "none"
    /\ timers[roomId].stale > 0
    /\ timers' = [timers EXCEPT ![roomId].stale = @ - 1]
    /\ ev' = Event("timer", NoUser, roomId, FALSE)
    /\ UNCHANGED <<users, gameRooms, currentRoom, fault, hands, acts, handTotal, handPure, left>>

----------------------------------------------------------------------------

Next ==
    \/ \E s \in UserIds : Authenticate(s)
    \/ \E s \in UserIds \ left, roomId \in MainRooms, bigBlind \in MainBlinds :
          JoinRoom(s, roomId, bigBlind)
    \/ \E s \in UserIds, action \in Actions :
          \E amount \in IF action = "raise" THEN RaiseAmounts ELSE {0} :
              PlayerAction(s, action, amount)
    \/ \E s \in UserIds : LeaveRoom(s)
    \/ \E roomId \in RoomIds, draw \in MainDraws : StartTimer(roomId, draw)
    \/ \E roomId \in RoomIds, draw \in MainDraws : RestartTimer(roomId, draw)
    \/ \E roomId \in RoomIds : StaleTimer(roomId)

Spec == Init /\ [][Next]_vars

----------------------------------------------------------------------------
(* Properties *)

\* the participant s holds the seat that is to act in the room of its connection
IsCurrentPlayer(s) ==
    /\ currentRoom[s] \in DOMAIN gameRooms
    /\ LET room == gameRooms[currentRoom[s]]
       IN  /\ room.currentPlayerIndex \in Seats(room)
           /\ Seat(room, room.currentPlayerIndex).userId = s

RoomsUnchanged == gameRooms' = gameRooms /\ users' = users

\* C1: a player-action request changes the rooms or the balances only when it comes
\* from the participant seated at currentPlayerIndex of the room of its connection;
\* from anyone else it leaves every room and every balance as they were.
C1_OutOfTurnIsNoOp ==
    [][ev'.kind = "player-action" =>
          \/ RoomsUnchanged
          \/ IsCurrentPlayer(ev'.sock)]_vars

\* a request was rejected from a participant seated in a hand in which another seat is to act
C1_Witness ==
    /\ ev.kind = "player-action" /\ ~ev.ok
    /\ currentRoom[ev.sock] \in DOMAIN gameRooms
    /\ LET room == gameRooms[currentRoom[ev.sock]]
       IN  /\ room.phase = "preflop"
           /\ findIndex(room, ev.sock) # -1
           /\ room.currentPlayerIndex \in Seats(room)
           /\ findIndex(room, ev.sock) # room.currentPlayerIndex

\* C2: while the phase of the room is waiting, a player-action request of a seated
\* participant changes no room and no balance.
C2_NoActionWhileWaiting ==
    [][(/\ ev'.kind = "player-action"
        /\ currentRoom[ev'.sock] \in DOMAIN gameRooms
        /\ gameRooms[currentRoom[ev'.sock]].phase = "waiting")
          => RoomsUnchanged]_vars

\* C3: while a hand is played by the seats it started with, pot plus the seats'
\* chips is the sum of the seats' chips just before the hand started; right after
\* the settlement the seats' chips alone are that sum.
C3_ChipConservation ==
    \A r \in DOMAIN gameRooms :
        handPure[r] =>
            /\ InHand(gameRooms[r]) => gameRooms[r].pot + ChipsOf(gameRooms[r]) = handTotal[r]
            /\ (ev.endGame /\ ev.room = r /\ gameRooms[r].phase = "waiting")
                  => ChipsOf(gameRooms[r]) = handTotal[r]

\* a hand was settled after a bet beyond the blinds, with the seats it started with
C3_Witness ==
    /\ ev.endGame /\ ev.winner # -1
    /\ handPure[ev.room]
    /\ gameRooms[ev.room].pot > gameRooms[ev.room].smallBlind + gameRooms[ev.room].bigBlind
    /\ ChipsOf(gameRooms[ev.room]) = handTotal[ev.room]

\* C4: a player action or a leave that brings the non-folded seats of a hand down to
\* exactly one settles the hand in the same step: endGame runs, that seat wins and
\* the phase is waiting.
C4_EarlyWin ==
    [][\A r \in DOMAIN gameRooms \cap DOMAIN gameRooms' :
          (/\ ev'.kind \in {"player-action", "leave-room"} /\ ev'.ok /\ ev'.room = r
           /\ gameRooms[r].phase \in {"preflop", "flop", "turn", "river"}
           /\ Cardinality(NonFolded(gameRooms[r])) > 1
           /\ Cardinality(NonFolded(gameRooms'[r])) = 1)
          => /\ ev'.endGame
             /\ NonFolded(gameRooms'[r]) = {ev'.winner}
             /\ gameRooms'[r].phase = "waiting"]_vars

\* C5: whenever endGame runs some seat is not folded and one of them wins: the lone
\* one when there is only one; the seats' chips grow by the pot in total, and the
\* chips of a seat that neither acted nor won stay as they were.
C5_SettlementHasWinner ==
    [][ev'.endGame =>
          LET before == gameRooms[ev'.room]
              after == gameRooms'[ev'.room]
          IN  /\ NonFolded(after) # {}
              /\ ev'.winner \in NonFolded(after)
              /\ ChipsOf(after) = ChipsOf(before) + before.pot
              /\ \A i \in Seats(after) :
                    (i # ev'.winner /\ Seat(after, i).userId # ev'.sock)
                        => Seat(after, i).chips = Seat(before, i).chips]_vars

\* C6: right after a hand start that took effect, with N >= 2 seats and dealer d:
\* seat (d+1) mod N has bet the small blind, seat (d+2) mod N the big blind, every
\* other seat 0; pot is their sum, currentBet the big blind, the phase preflop and
\* the seat to act (d+3) mod N.
C6_BlindsAndFirstActor ==
    (ev.kind = "timer" /\ ev.ok) =>
        LET room == gameRooms[ev.room]
            n == Len(room.players)
            d == room.dealerIndex
        IN  /\ n >= 2
            /\ \A i \in Seats(room) :
                  Seat(room, i).bet = IF i = (d + 1) % n THEN room.smallBlind
                                      ELSE IF i = (d + 2) % n THEN room.bigBlind
                                      ELSE 0
            /\ room.pot = room.smallBlind + room.bigBlind
            /\ room.currentBet = room.bigBlind
            /\ room.phase = "preflop"
            /\ room.currentPlayerIndex = (d + 3) % n

\* the scenario of the specification: big blind 100, seats A (dealer), B, C
C6_Witness ==
    /\ ev.kind = "timer" /\ ev.ok
    /\ LET room == gameRooms[ev.room]
       IN  /\ Len(room.players) = 3 /\ room.dealerIndex = 0 /\ room.bigBlind = 100
           /\ Seat(room, 1).bet = 50 /\ Seat(room, 2).bet = 100 /\ Seat(room, 0).bet = 0
           /\ room.pot = 150 /\ room.currentBet = 100 /\ room.currentPlayerIndex = 0

\* C7: right after a hand start that took effect the seats' bets add up to the pot,
\* there is no community card, every seat holds 2 cards and is neither folded nor
\* all-in, and the deck holds 52 - 2N cards.
C7_FreshHand ==
    (ev.kind = "timer" /\ ev.ok) =>
        LET room == gameRooms[ev.room]
        IN  /\ BetsOf(room) = room.pot
            /\ room.communityCards = <<>>
            /\ \A i \in Seats(room) :
                  /\ Len(Seat(room, i).cards) = 2
                  /\ ~Seat(room, i).folded
                  /\ ~Seat(room, i).allIn
            /\ Len(room.deck) = NumSuits * NumValues - 2 * Len(room.players)

\* a second hand was started for three seats
C7_Witness ==
    /\ ev.kind = "timer" /\ ev.ok /\ hands = 2
    /\ Len(gameRooms[ev.room].players) = 3
    /\ Len(gameRooms[ev.room].deck) = 46

\* C8: the phase moves forward along waiting, preflop, flop, turn, river, showdown,
\* waiting only, and a start trigger takes effect only on a room whose phase is
\* waiting: a hand in progress is not started again.
PhaseRank(ph) ==
    CASE ph = "waiting" -> 0 [] ph = "preflop" -> 1 [] ph = "flop" -> 2
      [] ph = "turn" -> 3 [] ph = "river" -> 4 [] ph = "showdown" -> 5

C8_NoRestartInHand ==
    [][\A r \in DOMAIN gameRooms \cap DOMAIN gameRooms' :
          /\ (ev'.kind = "timer" /\ ev'.ok /\ ev'.room = r)
                => gameRooms[r].phase = "waiting"
          /\ gameRooms'[r].phase # gameRooms[r].phase
                => \/ gameRooms'[r].phase = "waiting"
                   \/ PhaseRank(gameRooms'[r].phase) > PhaseRank(gameRooms[r].phase)]_vars

\* C9: at most one delayed start is pending for a room id.
C9_OnePendingStart == \A r \in RoomIds : Pending(timers[r]) <= 1

\* the claim's precondition: the room is not registered or has fewer than 2 seats
NoHandPossible(r) == r \notin DOMAIN gameRooms \/ Len(gameRooms[r].players) < 2

\* C10: a delayed start that fires for a room id that is not registered, or whose
\* room has fewer than 2 seats, changes no room and no balance and creates no room.
C10_StaleTriggerIsNoOp ==
    [][(ev'.kind = "timer" /\ NoHandPossible(ev'.room)) => RoomsUnchanged]_vars

\* a delayed start fired after its room was deleted
C10_Witness ==
    /\ ev.kind = "timer" /\ ~ev.ok
    /\ ev.room \notin DOMAIN gameRooms

\* C11: in every state with a hand in progress and at least one seat,
\* currentPlayerIndex designates a seat of the room (0 <= index < number of seats),
\* so that some participant's action is accepted.
C11_TurnIsSeated ==
    \A r \in DOMAIN gameRooms :
        (gameRooms[r].phase # "waiting" /\ Len(gameRooms[r].players) >= 1)
            => gameRooms[r].currentPlayerIndex \in Seats(gameRooms[r])

----------------------------------------------------------------------------
(* The lobby with several rooms: every user is registered, and a connection
   may ask for a seat in any room with any big blind.  A join-room request
   replaces socket.currentRoom and leaves the seats the user holds elsewhere. *)

\* the users of the lobby
LobbyUsers == {"u1", "u2"}

LobbyInit ==
    /\ users = [s \in LobbyUsers |-> InitialChips]
    /\ gameRooms = <<>>
    /\ currentRoom = [s \in UserIds |-> NoRoom]
    /\ timers = [r \in RoomIds |-> NoTimers]
    /\ fault = "none"
    /\ hands = 0
    /\ acts = 0
    /\ handTotal = [r \in RoomIds |-> 0]
    /\ handPure = [r \in RoomIds |-> TRUE]
    /\ left = {}
    /\ ev = Event("init", NoUser, NoRoom, FALSE)

LobbyNext ==
    \/ \E s \in LobbyUsers, roomId \in RoomIds, bigBlind \in BigBlinds :
          JoinRoom(s, roomId, bigBlind)
    \/ \E s \in LobbyUsers, action \in Actions :
          \E amount \in IF action = "raise" THEN RaiseAmounts ELSE {0} :
              PlayerAction(s, action, amount)
    \/ \E roomId \in RoomIds, draw \in MainDraws : StartTimer(roomId, draw)

LobbySpec == LobbyInit /\ [][LobbyNext]_vars

\* C12: for every seat of every room, the seat's chips are the balance the user
\* store holds for the seat's user; also for a user seated in more than one room.
C12_SeatMirrorsBalance ==
    \A r \in DOMAIN gameRooms : \A i \in Seats(gameRooms[r]) :
        Seat(gameRooms[r], i).userId \in DOMAIN users
            => Seat(gameRooms[r], i).chips = users[Seat(gameRooms[r], i).userId]

\* C13: a join-room request seats the user only if the room has fewer than
\* maxPlayers seats, the user holds no seat in that room, and the user's balance
\* is at least 10 times the bigBlind of the room joined; a rejected request leaves
\* every room as it was.
C13_SeatRequest ==
    [][ev'.kind = "join-room" =>
          IF ev'.ok
          THEN /\ users[ev'.sock] >= BuyInFactor * gameRooms'[ev'.room].bigBlind
               /\ ev'.room \in DOMAIN gameRooms =>
                     /\ Len(gameRooms[ev'.room].players) < gameRooms[ev'.room].maxPlayers
                     /\ \A i \in Seats(gameRooms[ev'.room]) :
                           Seat(gameRooms[ev'.room], i).userId # ev'.sock
          ELSE gameRooms' = gameRooms]_vars

----------------------------------------------------------------------------
(* The snapshot pushed to a participant *)

\* { hidden: true }
Hidden == "hidden"

\* player.cards.map(() => ({ hidden: true }))
hideCards(cards) == [k \in DOMAIN cards |-> Hidden]

\* sanitizeRoomForClient: { ...room, players: ... }, every field of the room copied,
\* the cards of the seats of other users replaced by markers
sanitizeRoomForClient(room, userId) ==
    LET seatFor(p) == [p EXCEPT !.cards = IF p.userId = userId THEN p.cards
                                          ELSE hideCards(p.cards)]
    IN  [room EXCEPT !.players = [k \in DOMAIN room.players |-> seatFor(room.players[k])]]

\* room.players.findIndex(p => p.userId === player.userId)
findIndexByUser(room, userId) ==
    LET hit == {i \in Seats(room) : Seat(room, i).userId = userId}
    IN  IF hit = {} THEN -1 ELSE CHOOSE i \in hit : \A j \in hit : i <= j

\* the game-update message updateGameState emits to the seat of userId
gameUpdate(room, userId) ==
    [ room |-> sanitizeRoomForClient(room, userId),
      isYourTurn |-> room.currentPlayerIndex = findIndexByUser(room, userId) ]

\* the room as another shuffle would have left it: the first card of seat j and the
\* card on top of the deck exchanged, everything else the same
otherDeal(room, j) ==
    IF Len(Seat(room, j).cards) = 0 \/ Len(room.deck) = 0 THEN room
    ELSE [room EXCEPT !.players[j + 1].cards[1] = top(room.deck),
                      !.deck[Len(room.deck)] = Seat(room, j).cards[1]]

\* C14: the snapshot pushed to a participant after a hand start is the same for two
\* rooms that differ only in the cards another seat holds and in what remains in the
\* deck: it carries neither the other seats' cards nor the contents of the deck.
C14_SnapshotHidesCards ==
    (ev.kind = "timer" /\ ev.ok) =>
        LET room == gameRooms[ev.room]
        IN  \A i, j \in Seats(room) :
                i # j => gameUpdate(room, Seat(room, i).userId)
                            = gameUpdate(otherDeal(room, j), Seat(room, i).userId)

\* C15: the pot of every room is never negative, and no player-action request
\* (fold, call, check, raise with any amount, all-in) makes the pot of its room smaller.
C15_PotNeverShrinks ==
    [][/\ \A r \in DOMAIN gameRooms' : gameRooms'[r].pot >= 0
       /\ (ev'.kind = "player-action" /\ ev'.ok)
            => gameRooms'[ev'.room].pot >= gameRooms[ev'.room].pot]_vars

\* C16: while a hand is in progress, currentBet is at least the round bet of every seat.
C16_CurrentBetIsHighest ==
    \A r \in DOMAIN gameRooms :
        InHand(gameRooms[r]) =>
            \A i \in Seats(gameRooms[r]) : gameRooms[r].currentBet >= Seat(gameRooms[r], i).bet

\* the number of community cards the phase calls for
CardsOfPhase(ph) ==
    CASE ph = "waiting" -> 0 [] ph = "preflop" -> 0 [] ph = "flop" -> 3
      [] ph = "turn" -> 4 [] ph = "river" -> 5 [] ph = "showdown" -> 5

\* C17: in every state the number of community cards of a room is the one of its
\* phase: 0 in waiting and preflop, 3 in flop, 4 in turn, 5 in river and showdown.
C17_CommunityCardsByPhase ==
    \A r \in DOMAIN gameRooms :
        Len(gameRooms[r].communityCards) = CardsOfPhase(gameRooms[r].phase)

----------------------------------------------------------------------------
(* The turn engine on its own: nextPlayer applied to a room in which a hand was
   dealt and each seat has folded, gone all-in or done neither. *)

TurnRoom == "r1"
TurnSeatOrder == <<"u1", "u2", "u3">>
SeatStatus == {"active", "folded", "all-in"}

\* the room after n users took a seat
seated(n) ==
    [createGameRoom(TurnRoom, 100) EXCEPT
        !.players = [k \in 1 .. n |-> newPlayer(TurnSeatOrder[k], InitialChips)]]

\* the seats from i on fold or go all-in as `status` says
RECURSIVE withStatus(_, _, _)
withStatus(cx, status, i) ==
    IF i >= Len(cx.room.players) THEN cx
    ELSE withStatus(
            IF status[i] = "active" THEN cx
            ELSE applyAction(cx, i, IF status[i] = "folded" THEN "fold" ELSE "all-in", 0),
            status, i + 1)

\* a hand dealt to n seats, the seats' status applied, seat `cur` to act
turnInput(n, status, cur) ==
    LET dealt == startNewGame(
                    Context(seated(n), [s \in UserIds |-> InitialChips]), "first")
        cx == withStatus(dealt, status, 0)
    IN  [cx EXCEPT !.room.currentPlayerIndex = cur]

TurnInit ==
    \E n \in 2 .. 3 : \E status \in [0 .. (n - 1) -> SeatStatus], cur \in 0 .. (n - 1) :
        LET cx == turnInput(n, status, cur)
        IN  /\ users = cx.users
            /\ gameRooms = [r \in {TurnRoom} |-> cx.room]
            /\ currentRoom = [s \in UserIds |->
                                IF findIndex(cx.room, s) # -1 THEN TurnRoom ELSE NoRoom]
            /\ timers = [r \in RoomIds |-> NoTimers]
            /\ fault = "none"
            /\ hands = 1
            /\ acts = 0
            /\ handTotal = [r \in RoomIds |-> IF r = TurnRoom THEN n * InitialChips ELSE 0]
            /\ handPure = [r \in RoomIds |-> TRUE]
            /\ left = {}
            /\ ev = Event("init", NoUser, NoRoom, FALSE)

\* the call nextPlayer(roomId) that ends the player-action handler, from the seat to act
TurnAdvance ==
    /\ fault = "none"
    /\ ev.kind = "init"
    /\ LET room == gameRooms[TurnRoom]
       IN  \E cx \in nextPlayer(Context(room, users)) :
            /\ gameRooms' = [gameRooms EXCEPT ![TurnRoom] = cx.room]
            /\ users' = cx.users
            /\ fault' = cx.fault
            /\ timers' = IF cx.endGame /\ cx.fault = "none"
                         THEN [timers EXCEPT ![TurnRoom].restart = @ + 1]
                         ELSE timers
            /\ acts' = acts + 1
            /\ ev' = [Event("nextPlayer", Seat(room, room.currentPlayerIndex).userId,
                            TurnRoom, TRUE)
                        EXCEPT !.endGame = cx.endGame, !.winner = cx.winner]
            /\ UNCHANGED <<currentRoom, hands, handTotal, handPure, left>>

TurnNext == TurnAdvance

TurnSpec == TurnInit /\ [][TurnNext]_vars

\* the eligible seats of a room
EligibleSeats(room) == {k \in Seats(room) : eligible(Seat(room, k))}

\* the seat of `among` that comes first in the cyclic order i+1, i+2, ..., i+N
CyclicFirst(room, i, among) ==
    LET n == Len(room.players)
        dist(k) == (k + n - i - 1) % n
    IN  CHOOSE k \in among : \A j \in among : dist(k) <= dist(j)

\* C18: a turn advance from seat i makes the first eligible seat in the cyclic order
\* i+1, ..., i+N the seat to act and changes nothing else; it hands off to the phase
\* engine only if no seat is eligible.
C18_TurnAdvance ==
    [][ev'.kind = "nextPlayer" =>
          LET room == gameRooms[TurnRoom]
              el == EligibleSeats(room)
          IN  IF el # {}
              THEN /\ gameRooms'[TurnRoom] =
                        [room EXCEPT !.currentPlayerIndex =
                            CyclicFirst(room, room.currentPlayerIndex, el)]
                   /\ users' = users
                   /\ fault' = "none"
                   /\ ~ev'.endGame
              ELSE gameRooms'[TurnRoom] \in
                        {c.room : c \in nextPhase(Context(room, users))}]_vars

\* the scenario of the specification: A folded, B all-in, C active; the advance
\* from A landed on C
C18_Witness ==
    /\ ev.kind = "nextPlayer" /\ ev.sock = "u1"
    /\ LET room == gameRooms[TurnRoom]
       IN  /\ Len(room.players) = 3
           /\ Seat(room, 0).folded /\ ~Seat(room, 0).allIn
           /\ Seat(room, 1).allIn /\ ~Seat(room, 1).folded
           /\ eligible(Seat(room, 2))
           /\ room.currentPlayerIndex = 2
           /\ room.phase = "preflop"

----------------------------------------------------------------------------

\* C19: handling an accepted player-action request terminates: the chain of
\* nextPlayer and nextPhase calls selects a seat to act or completes the settlement
\* after at most 4 phase advances, and never recurses without bound (no call
\* stack overflow), whatever the phase of the room.
C19_ActionTerminates ==
    [][ev'.kind = "player-action" => fault' # "RangeError"]_vars

Streets == {"flop", "turn", "river"}

\* C20: a player action advances the phase only when the action leaves no seat
\* eligible to act; an advance that starts in preflop runs on within the same step
\* to the settlement (endGame); and in no state between two events is the phase
\* of a room flop, turn or river.
C20_AdvanceCascades ==
    [][/\ \A r \in DOMAIN gameRooms' : gameRooms'[r].phase \notin Streets
       /\ (/\ ev'.kind = "player-action" /\ ev'.ok
           /\ gameRooms'[ev'.room].phase # gameRooms[ev'.room].phase)
            => /\ ev'.endGame
               /\ gameRooms'[ev'.room].phase \in {"waiting", "showdown"}
               /\ \E action \in Actions, amount \in RaiseAmounts :
                     LET room == gameRooms[ev'.room]
                         cx == applyAction(Context(room, users),
                                           findIndex(room, ev'.sock), action, amount)
                     IN  /\ EligibleSeats(cx.room) = {}
                         /\ \E c \in nextPlayer(cx) : c.room = gameRooms'[ev'.room]]_vars

\* a player action in preflop left no seat eligible and the hand ran through flop,
\* turn and river to the settlement in that step
C20_Witness ==
    /\ ev.kind = "player-action" /\ ev.ok /\ ev.endGame /\ ev.winner # -1
    /\ gameRooms[ev.room].phase = "waiting"
    /\ Len(gameRooms[ev.room].communityCards) = 5
    /\ Len(gameRooms[ev.room].players) >= 2

====
